---- MODULE Spec2Model ----
(***************************************************************************)
(* Model of DefaultTraceLde (prover/src/trace/trace_lde/default/mod.rs):   *)
(* the manager that owns the low-degree extension of the main trace        *)
(* segment and of the auxiliary trace segments together with their Merkle  *)
(* commitments, and answers frame reads and position queries.              *)
(*                                                                         *)
(* The field, the polynomial engine (ColMatrix / RowMatrix), the domain    *)
(* descriptor (StarkDomain), the trace layout and the Merkle tree are      *)
(* collaborators of the file; they are modelled here over a toy prime      *)
(* field and a toy hash, following their description in the specification. *)
(***************************************************************************)
EXTENDS Integers, Sequences, FiniteSets, TLC

\* ------------------------------------------------------------------ bounds
MaxTraceLen == 4
MaxBlowup == 2
MaxCols == 2
MaxPositions == 2

\* "Currently, at most 1 auxiliary segment is possible."
NUM_AUX_SEGMENTS == 1

\* ------------------------------------------------------- toy field GF(97)
FieldModulus == 97
\* 5 generates the multiplicative group of GF(97); it is also the coset
\* offset of the LDE domain.
FieldGenerator == 5

RECURSIVE Pow(_, _)
Pow(b, e) ==
    IF e = 0 THEN 1
    ELSE LET h == Pow(b, e \div 2)
         IN IF e % 2 = 0 THEN (h * h) % FieldModulus
            ELSE (((h * h) % FieldModulus) * b) % FieldModulus

Inv(a) == Pow(a, FieldModulus - 2)

\* root of unity of order n (n divides FieldModulus - 1 for every power of two
\* up to 32 and for 3, 6, 12, 24)
RootOfUnity(n) == Pow(FieldGenerator, (FieldModulus - 1) \div n)

RECURSIVE SumTo(_, _)
\* sum of f[1..n] in the field
SumTo(f, n) == IF n = 0 THEN 0 ELSE (f[n] + SumTo(f, n - 1)) % FieldModulus

\* --------------------------------------------------------------- matrices
\* ColMatrix: a sequence of columns, each a sequence of field elements.
col_num_cols(m) == Len(m)
col_num_rows(m) == Len(m[1])

\* RowMatrix: a sequence of rows, each a sequence of field elements.
num_rows(m) == Len(m)
num_cols(m) == Len(m[1])
\* row(i) with i counted from 0 as in the source
row(m, i) == m[i + 1]

\* The input tables the model draws from, one per shape.  Main traces hold
\* base-field elements and auxiliary traces extension-field elements: the two
\* families are disjoint, so that a main and an auxiliary segment of the same
\* shape still differ.
MainTrace(rows, cols) ==
    [c \in 1..cols |-> [r \in 1..rows |-> (r * r + 3 * c) % FieldModulus]]

AuxTrace(rows, cols) ==
    [c \in 1..cols |->
        [r \in 1..rows |-> (2 * r * r + c * r + 50) % FieldModulus]]

MainTraces == { MainTrace(rows, cols) : rows \in 1..MaxTraceLen, cols \in 1..MaxCols }

AuxTraces == { AuxTrace(rows, cols) : rows \in 1..MaxTraceLen, cols \in 1..MaxCols }

\* ----------------------------------------------------------------- domain
\* StarkDomain: the trace length it was built for and the blowup factor.
Domains == [trace_length : 1..MaxTraceLen, blowup : 1..MaxBlowup]

trace_to_lde_blowup(domain) == domain.blowup
lde_domain_size(domain) == domain.trace_length * domain.blowup

\* ------------------------------------------------------ polynomial engine
\* ColMatrix::interpolate_columns: each column becomes the coefficients of the
\* polynomial of degree rows-1 that takes the column's values on the trace
\* domain {w^j}, w a root of unity of order rows (inverse DFT).
interpolate_columns(trace) ==
    LET n == col_num_rows(trace)
        w == RootOfUnity(n)
    IN [c \in 1..col_num_cols(trace) |->
          [k \in 1..n |->
              (Inv(n % FieldModulus) *
                 SumTo([j \in 1..n |->
                          trace[c][j] * Pow(w, ((n - (j - 1)) * (k - 1)) % n)], n))
              % FieldModulus]]

\* value of the polynomial with coefficient sequence p at x
EvalPoly(p, x) ==
    SumTo([k \in 1..Len(p) |-> p[k] * Pow(x, k - 1)], Len(p))

\* RowMatrix::evaluate_polys_over: evaluates every polynomial over the LDE
\* domain {g * w^i}, w a root of unity of order rows * blowup; the result is
\* row-major with (polynomial rows) * blowup rows.
evaluate_polys_over(polys, domain) ==
    LET n == col_num_rows(polys) * trace_to_lde_blowup(domain)
        w == RootOfUnity(n)
    IN [i \in 1..n |->
          [c \in 1..col_num_cols(polys) |->
              EvalPoly(polys[c], (FieldGenerator * Pow(w, i - 1)) % FieldModulus)]]

\* ----------------------------------------------------------------- hasher
DigestModulus == 251

RECURSIVE HashFrom(_, _, _)
HashFrom(elems, i, acc) ==
    IF i > Len(elems) THEN acc
    ELSE HashFrom(elems, i + 1, (acc * 31 + elems[i] + 7) % DigestModulus)

\* ElementHasher::hash_elements
hash_elements(elems) == HashFrom(elems, 1, 17)

\* Hasher::merge
merge(a, b) == (a * 37 + b * 41 + 11) % DigestModulus

\* ------------------------------------------------------------ Merkle tree
\* the level above `level`: neighbours are merged, an unpaired last node is
\* merged with the zero digest
NextLevel(level) ==
    [i \in 1..((Len(level) + 1) \div 2) |->
        merge(level[2 * i - 1], IF 2 * i <= Len(level) THEN level[2 * i] ELSE 0)]

RECURSIVE BuildLevels(_)
BuildLevels(level) ==
    IF Len(level) <= 1 THEN <<level>>
    ELSE <<level>> \o BuildLevels(NextLevel(level))

\* MerkleTree::new: levels[1] are the leaves, the last level holds the root
MerkleTree(leaves) == [levels |-> BuildLevels(leaves)]

\* MerkleTree::depth
depth(tree) == Len(tree.levels) - 1
\* MerkleTree::root
root(tree) == tree.levels[Len(tree.levels)][1]

\* RowMatrix::commit_to_rows: one leaf per row, the hash of the row
commit_to_rows(m) == MerkleTree([i \in 1..num_rows(m) |-> hash_elements(m[i])])

\* the sibling digests on the way from leaf `pos` to the root
AuthPath(tree, pos) ==
    [d \in 1..depth(tree) |->
        LET idx == pos \div (2 ^ (d - 1))
            sib == IF idx % 2 = 0 THEN idx + 1 ELSE idx - 1
            level == tree.levels[d]
        IN IF sib + 1 <= Len(level) THEN level[sib + 1] ELSE 0]

\* MerkleTree::prove_batch: an error for a position that is no leaf
prove_batch(tree, positions) ==
    IF \E j \in 1..Len(positions) : positions[j] >= Len(tree.levels[1])
    THEN [ok |-> FALSE]
    ELSE [ok |-> TRUE,
          paths |-> [j \in 1..Len(positions) |-> AuthPath(tree, positions[j])]]

RECURSIVE Climb(_, _, _, _)
Climb(h, idx, path, d) ==
    IF d > Len(path) THEN h
    ELSE Climb(IF idx % 2 = 0 THEN merge(h, path[d]) ELSE merge(path[d], h),
               idx \div 2, path, d + 1)

\* MerkleTree::verify for one position: the path leads from the leaf to root
verify(rt, index, leaf, path) == Climb(leaf, index, path, 1) = rt

\* usize::ilog2: floor of the binary logarithm, n >= 1
RECURSIVE ilog2(_)
ilog2(n) == IF n <= 1 THEN 0 ELSE 1 + ilog2(n \div 2)

\* ------------------------------------------------------------------ state
VARIABLES
    built,              \* a DefaultTraceLde has been constructed
    main_segment_lde,   \* RowMatrix
    main_segment_tree,  \* MerkleTree
    aux_segment_ldes,   \* sequence of RowMatrix
    aux_segment_trees,  \* sequence of MerkleTree
    blowup,             \* the blowup factor of the domain given to new
    trace_info,         \* [num_aux_segments]: the layout's declared count
    last                \* the call in flight: its arguments and its outcome

vars == <<built, main_segment_lde, main_segment_tree, aux_segment_ldes,
          aux_segment_trees, blowup, trace_info, last>>

Idle == [op |-> "none", ok |-> TRUE, arg |-> <<>>, ret |-> <<>>]

Panic == [ok |-> FALSE]

\* ------------------------------------------------- build_trace_commitment
\* build_trace_commitment without the check of the tree depth
build_trace_commitment_no_depth_check(trace, domain) ==
    LET trace_polys == interpolate_columns(trace)
        trace_lde == evaluate_polys_over(trace_polys, domain)
        trace_tree == commit_to_rows(trace_lde)
    IN IF num_cols(trace_lde) # col_num_cols(trace) THEN Panic
       ELSE IF col_num_rows(trace_polys) # col_num_rows(trace) THEN Panic
       ELSE IF num_rows(trace_lde) # lde_domain_size(domain) THEN Panic
       ELSE [ok |-> TRUE, lde |-> trace_lde, tree |-> trace_tree,
             polys |-> trace_polys]

\* build_trace_commitment that takes the trace domain for the LDE domain: the
\* polynomials are evaluated without blowup and the row count is compared
\* with the trace length
build_trace_commitment_trace_domain(trace, domain) ==
    LET trace_polys == interpolate_columns(trace)
        trace_lde == evaluate_polys_over(trace_polys,
                                         [domain EXCEPT !.blowup = 1])
        tree_depth == ilog2(num_rows(trace_lde))
        trace_tree == commit_to_rows(trace_lde)
    IN IF num_cols(trace_lde) # col_num_cols(trace) THEN Panic
       ELSE IF col_num_rows(trace_polys) # col_num_rows(trace) THEN Panic
       ELSE IF num_rows(trace_lde) # domain.trace_length THEN Panic
       ELSE IF depth(trace_tree) # tree_depth THEN Panic
       ELSE [ok |-> TRUE, lde |-> trace_lde, tree |-> trace_tree,
             polys |-> trace_polys]

build_trace_commitment(trace, domain) ==
    LET trace_polys == interpolate_columns(trace)
        trace_lde == evaluate_polys_over(trace_polys, domain)
        tree_depth == ilog2(num_rows(trace_lde))
        trace_tree == commit_to_rows(trace_lde)
    IN IF num_cols(trace_lde) # col_num_cols(trace) THEN Panic
       ELSE IF col_num_rows(trace_polys) # col_num_rows(trace) THEN Panic
       ELSE IF num_rows(trace_lde) # lde_domain_size(domain) THEN Panic
       ELSE IF depth(trace_tree) # tree_depth THEN Panic
       ELSE [ok |-> TRUE, lde |-> trace_lde, tree |-> trace_tree,
             polys |-> trace_polys]

\* the DefaultTraceLde the variables hold
Self ==
    [main_segment_lde |-> main_segment_lde,
     main_segment_tree |-> main_segment_tree,
     aux_segment_ldes |-> aux_segment_ldes,
     aux_segment_trees |-> aux_segment_trees,
     blowup |-> blowup,
     trace_info |-> trace_info]

\* -------------------------------------------------------------------- new
new(info, main_trace, domain) ==
    LET b == build_trace_commitment(main_trace, domain)
    IN IF ~b.ok THEN Panic
       ELSE [ok |-> TRUE,
             self |-> [main_segment_lde |-> b.lde,
                       main_segment_tree |-> b.tree,
                       aux_segment_ldes |-> <<>>,
                       aux_segment_trees |-> <<>>,
                       blowup |-> trace_to_lde_blowup(domain),
                       trace_info |-> info],
             ret |-> [polys |-> b.polys]]

\* -------------------------------------------------------------- accessors
trace_len(self) == num_rows(self.main_segment_lde)

blowup_factor(self) == self.blowup

trace_layout(self) == self.trace_info

get_main_trace_commitment(self) == root(self.main_segment_tree)

\* -------------------------------------------------------- add_aux_segment
\* add_aux_segment with <= for < in the check of the segment count
add_aux_segment_off_by_one(self, aux_trace, domain) ==
    LET b == build_trace_commitment(aux_trace, domain)
    IN IF ~b.ok THEN Panic
       ELSE IF ~(Len(self.aux_segment_ldes) <= self.trace_info.num_aux_segments)
       THEN Panic
       ELSE IF num_rows(self.main_segment_lde) # num_rows(b.lde) THEN Panic
       ELSE [ok |-> TRUE,
             self |-> [self EXCEPT
                         !.aux_segment_ldes = Append(@, b.lde),
                         !.aux_segment_trees = Append(@, b.tree)],
             ret |-> [polys |-> b.polys, root |-> root(b.tree)]]

\* add_aux_segment without the comparison of the row counts
add_aux_segment_no_row_check(self, aux_trace, domain) ==
    LET b == build_trace_commitment(aux_trace, domain)
    IN IF ~b.ok THEN Panic
       ELSE IF ~(Len(self.aux_segment_ldes) < self.trace_info.num_aux_segments)
       THEN Panic
       ELSE [ok |-> TRUE,
             self |-> [self EXCEPT
                         !.aux_segment_ldes = Append(@, b.lde),
                         !.aux_segment_trees = Append(@, b.tree)],
             ret |-> [polys |-> b.polys, root |-> root(b.tree)]]

\* add_aux_segment that saves the new tree as the main segment's tree too
add_aux_segment_overwrites_main_tree(self, aux_trace, domain) ==
    LET b == build_trace_commitment(aux_trace, domain)
    IN IF ~b.ok THEN Panic
       ELSE IF ~(Len(self.aux_segment_ldes) < self.trace_info.num_aux_segments)
       THEN Panic
       ELSE IF num_rows(self.main_segment_lde) # num_rows(b.lde) THEN Panic
       ELSE [ok |-> TRUE,
             self |-> [self EXCEPT
                         !.aux_segment_ldes = Append(@, b.lde),
                         !.aux_segment_trees = Append(@, b.tree),
                         !.main_segment_tree = b.tree],
             ret |-> [polys |-> b.polys, root |-> root(b.tree)]]

\* add_aux_segment that takes over the blowup of the domain passed with the
\* auxiliary segment
add_aux_segment_resets_blowup(self, aux_trace, domain) ==
    LET b == build_trace_commitment(aux_trace, domain)
    IN IF ~b.ok THEN Panic
       ELSE IF ~(Len(self.aux_segment_ldes) < self.trace_info.num_aux_segments)
       THEN Panic
       ELSE IF num_rows(self.main_segment_lde) # num_rows(b.lde) THEN Panic
       ELSE [ok |-> TRUE,
             self |-> [self EXCEPT
                         !.aux_segment_ldes = Append(@, b.lde),
                         !.aux_segment_trees = Append(@, b.tree),
                         !.blowup = trace_to_lde_blowup(domain)],
             ret |-> [polys |-> b.polys, root |-> root(b.tree)]]

add_aux_segment(self, aux_trace, domain) ==
    LET b == build_trace_commitment(aux_trace, domain)
    IN IF ~b.ok THEN Panic
       ELSE IF ~(Len(self.aux_segment_ldes) < self.trace_info.num_aux_segments)
       THEN Panic
       ELSE IF num_rows(self.main_segment_lde) # num_rows(b.lde) THEN Panic
       ELSE [ok |-> TRUE,
             self |-> [self EXCEPT
                         !.aux_segment_ldes = Append(@, b.lde),
                         !.aux_segment_trees = Append(@, b.tree)],
             ret |-> [polys |-> b.polys, root |-> root(b.tree)]]

\* ------------------------------------------------------------ frame reads
\* The frame handed in is as wide as the segment and lde_step is a row of the
\* extended domain (the caller's contract); the outcome is the frame as the
\* call leaves it.
\* read_main_trace_frame_into that steps by one row, not by the blowup
read_main_trace_frame_into_next_row(self, lde_step) ==
    LET next_lde_step == (lde_step + 1) % trace_len(self)
    IN [ok |-> TRUE,
        frame |-> [current |-> row(self.main_segment_lde, lde_step),
                   next |-> row(self.main_segment_lde, next_lde_step)]]

read_main_trace_frame_into(self, lde_step) ==
    LET next_lde_step == (lde_step + blowup_factor(self)) % trace_len(self)
    IN [ok |-> TRUE,
        frame |-> [current |-> row(self.main_segment_lde, lde_step),
                   next |-> row(self.main_segment_lde, next_lde_step)]]

\* read_aux_trace_frame_into that falls back to the main segment when no
\* auxiliary segment is held
read_aux_trace_frame_into_fallback(self, lde_step) ==
    LET next_lde_step == (lde_step + blowup_factor(self)) % trace_len(self)
        segment == IF Len(self.aux_segment_ldes) = 0
                   THEN self.main_segment_lde
                   ELSE self.aux_segment_ldes[1]
    IN [ok |-> TRUE,
        frame |-> [current |-> row(segment, lde_step),
                   next |-> row(segment, next_lde_step)]]

read_aux_trace_frame_into(self, lde_step) ==
    LET next_lde_step == (lde_step + blowup_factor(self)) % trace_len(self)
    IN IF Len(self.aux_segment_ldes) = 0 THEN Panic
       ELSE LET segment == self.aux_segment_ldes[1]
            IN [ok |-> TRUE,
                frame |-> [current |-> row(segment, lde_step),
                           next |-> row(segment, next_lde_step)]]

\* ------------------------------------------------------------------ query
\* build_segment_queries that collects the rows in reverse order
build_segment_queries_reversed(segment_lde, segment_tree, positions) ==
    IF \E j \in 1..Len(positions) : positions[j] >= num_rows(segment_lde)
    THEN Panic
    ELSE LET n == Len(positions)
             trace_states ==
                 [j \in 1..n |-> row(segment_lde, positions[n + 1 - j])]
             trace_proof == prove_batch(segment_tree, positions)
         IN IF ~trace_proof.ok THEN Panic
            ELSE [ok |-> TRUE, proof |-> trace_proof, rows |-> trace_states]

build_segment_queries(segment_lde, segment_tree, positions) ==
    IF \E j \in 1..Len(positions) : positions[j] >= num_rows(segment_lde)
    THEN Panic
    ELSE LET trace_states ==
                 [j \in 1..Len(positions) |-> row(segment_lde, positions[j])]
             trace_proof == prove_batch(segment_tree, positions)
         IN IF ~trace_proof.ok THEN Panic
            ELSE [ok |-> TRUE, proof |-> trace_proof, rows |-> trace_states]

\* query that opens every segment against the main segment's tree
query_main_tree_only(self, positions) ==
    LET result ==
            <<build_segment_queries(self.main_segment_lde,
                                    self.main_segment_tree, positions)>>
            \o [i \in 1..Len(self.aux_segment_trees) |->
                  build_segment_queries(self.aux_segment_ldes[i],
                                        self.main_segment_tree, positions)]
    IN IF \E i \in 1..Len(result) : ~result[i].ok THEN Panic
       ELSE [ok |-> TRUE, ret |-> result]

query(self, positions) ==
    LET result ==
            <<build_segment_queries(self.main_segment_lde,
                                    self.main_segment_tree, positions)>>
            \o [i \in 1..Len(self.aux_segment_trees) |->
                  build_segment_queries(self.aux_segment_ldes[i],
                                        self.aux_segment_trees[i], positions)]
    IN IF \E i \in 1..Len(result) : ~result[i].ok THEN Panic
       ELSE [ok |-> TRUE, ret |-> result]

\* ---------------------------------------------------------------- actions
Init ==
    /\ built = FALSE
    /\ main_segment_lde = <<>>
    /\ main_segment_tree = [levels |-> <<>>]
    /\ aux_segment_ldes = <<>>
    /\ aux_segment_trees = <<>>
    /\ blowup = 0
    /\ trace_info = [num_aux_segments |-> 0]
    /\ last = Idle

Store(self) ==
    /\ main_segment_lde' = self.main_segment_lde
    /\ main_segment_tree' = self.main_segment_tree
    /\ aux_segment_ldes' = self.aux_segment_ldes
    /\ aux_segment_trees' = self.aux_segment_trees
    /\ blowup' = self.blowup
    /\ trace_info' = self.trace_info

Untouched ==
    UNCHANGED <<built, main_segment_lde, main_segment_tree, aux_segment_ldes,
                aux_segment_trees, blowup, trace_info>>

Aborted(op, arg) == [op |-> op, ok |-> FALSE, arg |-> arg, ret |-> <<>>]

New(info, main_trace, domain) ==
    /\ ~built
    /\ last = Idle
    /\ LET r == new(info, main_trace, domain)
           arg == [trace |-> main_trace, domain |-> domain]
       IN IF r.ok
          THEN /\ built' = TRUE
               /\ Store(r.self)
               /\ last' = [op |-> "new", ok |-> TRUE, arg |-> arg, ret |-> r.ret]
          ELSE /\ last' = Aborted("new", arg)
               /\ Untouched

AddAuxSegment(aux_trace, domain) ==
    /\ built
    /\ last = Idle
    /\ LET r == add_aux_segment(Self, aux_trace, domain)
           arg == [trace |-> aux_trace, domain |-> domain]
       IN IF r.ok
          THEN /\ built' = built
               /\ Store(r.self)
               /\ last' = [op |-> "add_aux_segment", ok |-> TRUE, arg |-> arg,
                           ret |-> r.ret]
          ELSE /\ last' = Aborted("add_aux_segment", arg)
               /\ Untouched

GetMainTraceCommitment ==
    /\ built
    /\ last = Idle
    /\ last' = [op |-> "get_main_trace_commitment", ok |-> TRUE, arg |-> <<>>,
                ret |-> get_main_trace_commitment(Self)]
    /\ Untouched

ReadMainTraceFrameInto(lde_step) ==
    /\ built
    /\ last = Idle
    /\ lde_step \in 0..(trace_len(Self) - 1)
    /\ LET r == read_main_trace_frame_into(Self, lde_step)
       IN last' = [op |-> "read_main_trace_frame_into", ok |-> TRUE,
                   arg |-> lde_step, ret |-> r.frame]
    /\ Untouched

ReadAuxTraceFrameInto(lde_step) ==
    /\ built
    /\ last = Idle
    /\ lde_step \in 0..(trace_len(Self) - 1)
    /\ LET r == read_aux_trace_frame_into(Self, lde_step)
       IN last' = IF r.ok
                  THEN [op |-> "read_aux_trace_frame_into", ok |-> TRUE,
                        arg |-> lde_step, ret |-> r.frame]
                  ELSE Aborted("read_aux_trace_frame_into", lde_step)
    /\ Untouched

\* the position lists a caller may hand to query: without repetition, not
\* empty, and possibly naming the first index past the extended domain
RECURSIVE PositionListsOfLen(_, _)
PositionListsOfLen(n, S) ==
    IF n = 0 THEN {<<>>}
    ELSE { Append(p, x) : p \in PositionListsOfLen(n - 1, S), x \in S }

NoRepeat(p) == \A i, j \in 1..Len(p) : i # j => p[i] # p[j]

PositionLists(size) ==
    UNION { { p \in PositionListsOfLen(n, 0..size) : NoRepeat(p) } :
            n \in 1..MaxPositions }

Query(positions) ==
    /\ built
    /\ last = Idle
    /\ LET r == query(Self, positions)
       IN last' = IF r.ok
                  THEN [op |-> "query", ok |-> TRUE, arg |-> positions,
                        ret |-> r.ret]
                  ELSE Aborted("query", positions)
    /\ Untouched

\* the caller takes the outcome of the call
Return ==
    /\ last # Idle
    /\ last' = Idle
    /\ Untouched

Next ==
    \/ \E info \in [num_aux_segments : 0..NUM_AUX_SEGMENTS],
          t \in MainTraces, d \in Domains : New(info, t, d)
    \/ \E t \in AuxTraces, d \in Domains : AddAuxSegment(t, d)
    \/ GetMainTraceCommitment
    \/ \E s \in 0..(MaxTraceLen * MaxBlowup) : ReadMainTraceFrameInto(s)
    \/ \E s \in 0..(MaxTraceLen * MaxBlowup) : ReadAuxTraceFrameInto(s)
    \/ \E p \in PositionLists(trace_len(Self)) : Query(p)
    \/ Return

Spec == Init /\ [][Next]_vars

\* =================================================================== claims
\* the committed segments in query order: the main one, then the auxiliary
\* ones in the order they were added
SegmentLde(i) == IF i = 1 THEN main_segment_lde ELSE aux_segment_ldes[i - 1]
SegmentTree(i) == IF i = 1 THEN main_segment_tree ELSE aux_segment_trees[i - 1]
NumSegments == 1 + Len(aux_segment_ldes)

IsPowerOfTwo(n) == n >= 1 /\ 2 ^ ilog2(n) = n

\* the extended row count a call's arguments ask for
ArgExtendedRows(arg) == col_num_rows(arg.trace) * arg.domain.blowup

\* the arguments pass every check of the commitment-building algorithm
ArgWellFormed(arg) ==
    /\ col_num_rows(arg.trace) = arg.domain.trace_length
    /\ IsPowerOfTwo(ArgExtendedRows(arg))

\* ------------------------------------------------------------------- C1
\* C1: read_main_trace_frame_into(lde_step, frame) sets frame.current to the
\* extended main row at lde_step and frame.next to the extended main row at
\* (lde_step + B) mod N, an index within 0..N-1; N is a multiple of B, step
\* (L-1)*B = N-B gives next = row 0, and step 0 gives next = row B when L >= 2.
C1_MainFrameWraps ==
    (built /\ last.op = "read_main_trace_frame_into") =>
        LET N == Len(main_segment_lde)
            s == last.arg
            nx == (s + blowup) % N
        IN /\ last.ok
           /\ N % blowup = 0
           /\ nx \in 0..(N - 1)
           /\ last.ret.current = main_segment_lde[s + 1]
           /\ last.ret.next = main_segment_lde[nx + 1]
           /\ (s = N - blowup => last.ret.next = main_segment_lde[1])
           /\ (s = 0 /\ N >= 2 * blowup =>
                 last.ret.next = main_segment_lde[blowup + 1])

\* the read at the last original step of a trace of length 4 with blowup 2:
\* next is row 0, which differs from the row one position further
C1_Witness ==
    /\ built
    /\ last.op = "read_main_trace_frame_into"
    /\ blowup = 2
    /\ Len(main_segment_lde) = 8
    /\ last.arg = 6
    /\ last.ret.next = main_segment_lde[1]
    /\ main_segment_lde[1] # main_segment_lde[8]

\* ------------------------------------------------------------------- C2
\* C2: an add_aux_segment call made when the number of auxiliary segments
\* already held equals the layout's declared count aborts and leaves the
\* manager as it was; after every step the manager holds at most the declared
\* number of auxiliary segments (and as many trees as extended tables).
C2_Step ==
    /\ (built /\ last'.op = "add_aux_segment" /\ last = Idle
          /\ Len(aux_segment_ldes) = trace_info.num_aux_segments)
       => (~last'.ok /\ aux_segment_ldes' = aux_segment_ldes
                     /\ aux_segment_trees' = aux_segment_trees)
    /\ built' =>
         /\ Len(aux_segment_ldes') <= trace_info'.num_aux_segments
         /\ Len(aux_segment_trees') = Len(aux_segment_ldes')

\* C2: every step keeps the auxiliary segment count within the declared
\* count, and an add_aux_segment at full count aborts without adding.
C2_AuxCountBounded == [][C2_Step]_vars

\* a second add_aux_segment under a layout that declares 1, with arguments
\* that the first call would have accepted, has aborted
C2_Witness ==
    /\ built
    /\ trace_info.num_aux_segments = 1
    /\ Len(aux_segment_ldes) = 1
    /\ last.op = "add_aux_segment"
    /\ ~last.ok
    /\ ArgWellFormed(last.arg)
    /\ ArgExtendedRows(last.arg) = Len(main_segment_lde)

\* ------------------------------------------------------------------- C3
\* C3 as stated: add_aux_segment with a column table whose row count differs
\* from the main segment's extended row count aborts.
C3_Original ==
    (built /\ last.op = "add_aux_segment"
       /\ col_num_rows(last.arg.trace) # Len(main_segment_lde))
    => ~last.ok

\* C3 amended: add_aux_segment with a column table whose extended row count
\* (its row count times the blowup of the domain passed with it) differs from
\* the main segment's extended row count aborts and adds no segment.
C3_Step ==
    (built /\ last'.op = "add_aux_segment" /\ last = Idle
       /\ ArgExtendedRows(last'.arg) # Len(main_segment_lde))
    => (~last'.ok /\ aux_segment_ldes' = aux_segment_ldes
                  /\ aux_segment_trees' = aux_segment_trees)

\* C3: (amended) every add_aux_segment step whose table extends to a row
\* count other than the main segment's aborts and adds no segment.
C3_ExtendedRowMismatchAborts == [][C3_Step]_vars

\* an add_aux_segment that the layout still had room for, whose table extends
\* to a power of two other than the main segment's row count, has aborted
C3_Witness ==
    /\ built
    /\ trace_info.num_aux_segments = 1
    /\ Len(aux_segment_ldes) = 0
    /\ last.op = "add_aux_segment"
    /\ ~last.ok
    /\ ArgWellFormed(last.arg)
    /\ ArgExtendedRows(last.arg) # Len(main_segment_lde)

\* ------------------------------------------------------------------- C4
\* C4: once the manager is built, no step changes the digest that
\* get_main_trace_commitment returns, and every call returns that digest.
C4_Step ==
    built =>
        /\ get_main_trace_commitment(Self)' = get_main_trace_commitment(Self)
        /\ last'.op = "get_main_trace_commitment" =>
              last'.ret = get_main_trace_commitment(Self)

\* C4: no step of a built manager changes the main commitment, and every
\* get_main_trace_commitment returns it.
C4_MainCommitmentStable == [][C4_Step]_vars

\* get_main_trace_commitment called after an auxiliary segment with another
\* root was added
C4_Witness ==
    /\ built
    /\ Len(aux_segment_trees) = 1
    /\ root(aux_segment_trees[1]) # root(main_segment_tree)
    /\ last.op = "get_main_trace_commitment"
    /\ last.ret = root(main_segment_tree)

\* ------------------------------------------------------------------- C5
\* C5: query([r]) for a row index r of the extended domain does not abort and
\* returns, for each committed segment, a bundle whose single row is that
\* segment's extended row r and whose proof verifies the hash of that row at
\* position r against that segment's root; the root add_aux_segment returns
\* is the root of the segment it added.
C5_RoundTrip ==
    /\ (built /\ last.op = "query" /\ Len(last.arg) = 1
          /\ last.arg[1] < Len(main_segment_lde)) =>
         LET r == last.arg[1]
         IN /\ last.ok
            /\ Len(last.ret) = NumSegments
            /\ \A i \in 1..NumSegments :
                 /\ last.ret[i].rows = <<SegmentLde(i)[r + 1]>>
                 /\ Len(last.ret[i].proof.paths) = 1
                 /\ verify(root(SegmentTree(i)), r,
                           hash_elements(SegmentLde(i)[r + 1]),
                           last.ret[i].proof.paths[1])
    /\ (built /\ last.op = "add_aux_segment" /\ last.ok) =>
         last.ret.root = root(aux_segment_trees[Len(aux_segment_trees)])

\* a single-position query answered for the main and one auxiliary segment,
\* whose roots differ, at the last row of an 8-row extended domain
C5_Witness ==
    /\ built
    /\ last.op = "query"
    /\ last.ok
    /\ last.arg = <<7>>
    /\ Len(last.ret) = 2
    /\ root(aux_segment_trees[1]) # root(main_segment_tree)

\* ------------------------------------------------------------------- C6
\* C6: query(positions) on a manager with k auxiliary segments returns 1 + k
\* bundles, main first and the auxiliary ones in append order; bundle i holds
\* len(positions) rows, the j-th being segment i's extended row at
\* positions[j], and a batch proof with one opening per position that
\* verifies that row at positions[j] against segment i's own root.
C6_QueryBundles ==
    (built /\ last.op = "query" /\ last.ok) =>
        /\ Len(last.ret) = NumSegments
        /\ \A i \in 1..NumSegments :
             /\ Len(last.ret[i].rows) = Len(last.arg)
             /\ Len(last.ret[i].proof.paths) = Len(last.arg)
             /\ \A j \in 1..Len(last.arg) :
                  /\ last.ret[i].rows[j] = SegmentLde(i)[last.arg[j] + 1]
                  /\ verify(root(SegmentTree(i)), last.arg[j],
                            hash_elements(last.ret[i].rows[j]),
                            last.ret[i].proof.paths[j])

\* a two-position query, positions in descending order, answered for the main
\* and one auxiliary segment whose rows at these positions all differ
C6_Witness ==
    /\ built
    /\ last.op = "query"
    /\ last.ok
    /\ last.arg = <<3, 1>>
    /\ Len(last.ret) = 2
    /\ main_segment_lde[4] # main_segment_lde[2]
    /\ aux_segment_ldes[1][4] # main_segment_lde[4]

\* ------------------------------------------------------------------- C7
\* C7: every committed segment, main or auxiliary, has a Merkle tree with one
\* leaf per extended row and depth exactly log2(extended row count); a new or
\* add_aux_segment whose table extends to a row count that is no power of two
\* aborts, and after an aborted new there is no manager.
C7_DepthIsLog2 ==
    /\ built =>
         \A i \in 1..NumSegments :
            /\ Len(SegmentTree(i).levels[1]) = num_rows(SegmentLde(i))
            /\ 2 ^ depth(SegmentTree(i)) = num_rows(SegmentLde(i))
    /\ (last.op \in {"new", "add_aux_segment"}
          /\ ~IsPowerOfTwo(ArgExtendedRows(last.arg))) => ~last.ok
    /\ (last.op = "new" /\ ~last.ok) => ~built

\* new has aborted on a 3-row table with a domain built for 3 rows and blowup
\* 2: the 6 extended rows pass every check but the depth one
C7_Witness ==
    /\ ~built
    /\ last.op = "new"
    /\ ~last.ok
    /\ col_num_rows(last.arg.trace) = 3
    /\ last.arg.domain = [trace_length |-> 3, blowup |-> 2]

\* ------------------------------------------------------------------- C8
\* C8: after a successful new or add_aux_segment the extended table stored for
\* the segment has (input rows * blowup of the domain) rows, each as wide as
\* the input table has columns, and the polynomial table returned has as many
\* rows as the input table and one polynomial per input column.
C8_ExtendedShape ==
    (built /\ last.op \in {"new", "add_aux_segment"} /\ last.ok) =>
        LET stored == IF last.op = "new" THEN main_segment_lde
                      ELSE aux_segment_ldes[Len(aux_segment_ldes)]
            input == last.arg.trace
        IN /\ num_rows(stored) = col_num_rows(input) * last.arg.domain.blowup
           /\ \A i \in 1..num_rows(stored) :
                 Len(stored[i]) = col_num_cols(input)
           /\ col_num_cols(last.ret.polys) = col_num_cols(input)
           /\ \A c \in 1..col_num_cols(input) :
                 Len(last.ret.polys[c]) = col_num_rows(input)

\* a 2-column, 4-row auxiliary table extended with blowup 2 to 8 rows
C8_Witness ==
    /\ built
    /\ last.op = "add_aux_segment"
    /\ last.ok
    /\ col_num_rows(last.arg.trace) = 4
    /\ col_num_cols(last.arg.trace) = 2
    /\ last.arg.domain.blowup = 2
    /\ num_rows(aux_segment_ldes[1]) = 8

\* ------------------------------------------------------------------- C9
\* C9: read_aux_trace_frame_into aborts exactly when the manager does not
\* hold exactly one auxiliary segment; otherwise it fills the frame with rows
\* lde_step and (lde_step + B) mod N of auxiliary segment 0.
C9_AuxFrameNeedsOneSegment ==
    (built /\ last.op = "read_aux_trace_frame_into") =>
        /\ last.ok <=> (Len(aux_segment_ldes) = 1)
        /\ last.ok =>
             LET N == Len(main_segment_lde)
                 nx == (last.arg + blowup) % N
             IN /\ last.ret.current = aux_segment_ldes[1][last.arg + 1]
                /\ last.ret.next = aux_segment_ldes[1][nx + 1]

\* read_aux_trace_frame_into has aborted on a manager whose layout declares an
\* auxiliary segment that was not added yet
C9_Witness ==
    /\ built
    /\ trace_info.num_aux_segments = 1
    /\ Len(aux_segment_ldes) = 0
    /\ last.op = "read_aux_trace_frame_into"
    /\ ~last.ok

\* ------------------------------------------------------------------ C10
\* C10: across a successful add_aux_segment, for every position list the
\* query either aborts before and after, or its bundles before the add are
\* the first bundles after it, followed by exactly one new bundle; every main
\* frame, and every frame of auxiliary segment 0 if there was one, reads the
\* same before and after.
C10_Step ==
    (built /\ Len(aux_segment_ldes') = Len(aux_segment_ldes) + 1) =>
        /\ \A p \in PositionLists(trace_len(Self)) :
             LET before == query(Self, p)
                 after == query(Self, p)'
             IN /\ before.ok <=> after.ok
                /\ before.ok =>
                     /\ Len(after.ret) = Len(before.ret) + 1
                     /\ SubSeq(after.ret, 1, Len(before.ret)) = before.ret
        /\ \A s \in 0..(trace_len(Self) - 1) :
             /\ read_main_trace_frame_into(Self, s)'
                   = read_main_trace_frame_into(Self, s)
             /\ Len(aux_segment_ldes) >= 1 =>
                   read_aux_trace_frame_into(Self, s)'
                      = read_aux_trace_frame_into(Self, s)

\* C10: every step that adds an auxiliary segment leaves the earlier query
\* bundles and the frames as they were and appends one bundle.
C10_SnapshotConsistency == [][C10_Step]_vars

\* an auxiliary segment whose rows differ from the main segment's has just
\* been added to a manager with 8 extended rows
C10_Witness ==
    /\ built
    /\ last.op = "add_aux_segment"
    /\ last.ok
    /\ Len(aux_segment_ldes) = 1
    /\ Len(main_segment_lde) = 8
    /\ aux_segment_ldes[1] # main_segment_lde
====
